---- MODULE Spec2Model ----
(***************************************************************************)
(* Model of src/config/parse.rs of rust-rpxy: parse_opts, which validates  *)
(* a parsed configuration (ConfigToml) and fills the process-wide Globals  *)
(* (ports, listen sockets, limits, the backend registry, the default       *)
(* backend, experimental options), and get_reverse_proxy, which turns one  *)
(* tenant's reverse_proxy entries into its path -> UpstreamGroup mapping.  *)
(*                                                                         *)
(* Option<T> is a sequence of length at most one.  Strings that the code   *)
(* lowercases (server names, paths) are sequences of ASCII byte values;    *)
(* strings it only copies or compares (app names, error messages, option   *)
(* tokens) are TLA+ strings.  A HashMap is a function on its key set; the  *)
(* iteration order of the apps HashMap is a nondeterministic choice.       *)
(*                                                                         *)
(* The run starts once the ConfigToml has been obtained (the configuration *)
(* file was read, or the default taken) and follows parse_opts in steps:   *)
(* ParseSetup (ports, sockets, limits, the checks of apps), one ParseApp   *)
(* per tenant, ParseFinish (default backend, experimental options).  The   *)
(* upstream entries are taken to be well-formed, so that                   *)
(* to_upstream().unwrap() does not panic.                                   *)
(***************************************************************************)
EXTENDS FiniteSets, Integers, Sequences, TLC

VARIABLES config, globals, pc, visited, result, rp_settings, rp_result

vars == <<config, globals, pc, visited, result, rp_settings, rp_result>>

\* ------------------------------------------------------------ bounds
\* At most MaxApps tenants in a multi-tenant configuration.
MaxApps == 2
\* At most MaxEntries reverse_proxy entries per tenant.
MaxEntries == 2
\* At most MaxUpstreams upstream servers per reverse_proxy entry.
MaxUpstreams == 1

\* ------------------------------------------------------------ Option<T>
None == <<>>

Some(x) == <<x>>

is_some(o) == o # <<>>

is_none(o) == o = <<>>

unwrap(o) == o[1]

\* ------------------------------------------------------------ helpers
Range(s) == {s[i] : i \in 1..Len(s)}

SeqsUpTo(S, n) == UNION {[1..k -> S] : k \in 0..n}

\* u8::to_ascii_lowercase applied bytewise: 'A'..'Z' (65..90) -> +32.
to_ascii_lowercase(s) ==
  [i \in 1..Len(s) |-> IF s[i] >= 65 /\ s[i] <= 90 THEN s[i] + 32 ELSE s[i]]

\* HashMap::default() and HashMap::insert (a later insert replaces the value).
EmptyMap == <<>>

Insert(m, k, v) ==
  [x \in (DOMAIN m) \cup {k} |-> IF x = k THEN v ELSE m[x]]

\* ------------------------------------------------------------ error messages
ErrPort == "Wrong port spec."

ErrMissingApps == "Missing application spec."

ErrWrongApps == "Wrong application spec."

ErrServerName == "Missing server_name"

ErrRequiredHttp == "Required HTTP port"

ErrTlsMaterial == "Condition failed: tls_cert_key_path.is_some() && tls_cert_path.is_some()"

ErrRedirection == "Condition failed: globals.https_port.is_some()"

ErrTlsRequired == "Condition failed: app.tls.is_some()"

ErrReverseProxy == "Missing reverse_proxy"

ErrMultipleDefault == "Multiple default reverse proxy setting"

\* ------------------------------------------------------------ get_reverse_proxy
\* UpstreamParams::to_upstream: scheme from the tls flag, address from location.
to_upstream(x) ==
  [scheme |-> IF x.tls = Some(TRUE) THEN "https" ELSE "http", address |-> x.location]

\* UpstreamOption::try_from(&str).ok(): unknown tokens give None and are dropped.
KnownUpstreamOptions == {"override_host", "convert_https_to_11"}

UpstreamOptions(rpo) ==
  IF is_some(rpo.upstream_options)
    THEN {s \in Range(unwrap(rpo.upstream_options)) : s \in KnownUpstreamOptions}
    ELSE {}

\* The key an entry is stored under: its lowercased path, "/" when absent.
PathOf(rpo) ==
  IF is_some(rpo.path) THEN to_ascii_lowercase(unwrap(rpo.path))
                       ELSE to_ascii_lowercase(<<47>>)

\* The UpstreamGroup built from one entry.
UpstreamGroup(rpo) ==
  [upstream |-> [i \in 1..Len(rpo.upstream) |-> to_upstream(rpo.upstream[i])],
   path |-> PathOf(rpo),
   replace_path |-> IF is_some(rpo.replace_path)
                      THEN Some(to_ascii_lowercase(unwrap(rpo.replace_path)))
                      ELSE None,
   cnt |-> 0,
   lb |-> "default",
   opts |-> UpstreamOptions(rpo)]

\* rp_settings.iter().for_each(... upstream.insert(path, elem)) over the first n entries.
RECURSIVE UpstreamOf(_, _)
UpstreamOf(rps, n) ==
  IF n = 0 THEN EmptyMap
           ELSE Insert(UpstreamOf(rps, n - 1), PathOf(rps[n]), UpstreamGroup(rps[n]))

\* rp_settings.iter().filter(|rpo| rpo.path.is_none()).count()
DefaultCount(rps) == Cardinality({i \in 1..Len(rps) : is_none(rps[i].path)})

get_reverse_proxy(rps) ==
  IF ~(DefaultCount(rps) < 2)
    THEN [err |-> Some(ErrMultipleDefault), upstream |-> EmptyMap]
    ELSE [err |-> None, upstream |-> UpstreamOf(rps, Len(rps))]

\* ------------------------------------------------------------ parse_opts
\* Globals as constructed by the caller before parse_opts runs: no ports, no
\* sockets, built-in limits, an empty registry, SNI consistency enforced.
InitGlobals ==
  [http_port |-> None,
   https_port |-> None,
   listen_sockets |-> <<>>,
   max_clients |-> 512,
   max_concurrent_streams |-> 64,
   backends |-> [apps |-> EmptyMap, default_server_name |-> None],
   http3 |-> FALSE,
   h3_alt_svc_max_age |-> 3600,
   h3_request_max_body_size |-> 65536,
   h3_max_concurrent_connections |-> 10000,
   h3_max_concurrent_bidistream |-> 100,
   h3_max_concurrent_unistream |-> 100,
   sni_consistency |-> TRUE]

LISTEN_ADDRESSES_V4 == <<"0.0.0.0">>

LISTEN_ADDRESSES_V6 == <<"[::]">>

\* globals.http_port = config.listen_port; globals.https_port = config.listen_port_tls
ListenPorts(g, c) ==
  [g EXCEPT !.http_port = c.listen_port, !.https_port = c.listen_port_tls]

\* Mutant of PortSpecOk: the comparison of the two ports is missing.
PortSpecOk_AnyPort(g) == is_some(g.http_port) \/ is_some(g.https_port)

\* The condition of the first ensure!.
PortSpecOk(g) ==
  (is_some(g.http_port) \/ is_some(g.https_port))
  /\ (IF is_some(g.http_port) /\ is_some(g.https_port)
        THEN unwrap(g.http_port) # unwrap(g.https_port)
        ELSE TRUE)

listen_addresses(c) ==
  IF c.listen_ipv6 = Some(TRUE) THEN LISTEN_ADDRESSES_V6 ELSE LISTEN_ADDRESSES_V4

\* The closure of flat_map: the sockets of one address, http first, then https.
SocketsOf(x, g) ==
  (IF is_some(g.http_port) THEN <<[ip |-> x, port |-> unwrap(g.http_port)]>> ELSE <<>>)
  \o (IF is_some(g.https_port) THEN <<[ip |-> x, port |-> unwrap(g.https_port)]>> ELSE <<>>)

RECURSIVE ListenSockets(_, _, _)
ListenSockets(addrs, n, g) ==
  IF n = 0 THEN <<>> ELSE ListenSockets(addrs, n - 1, g) \o SocketsOf(addrs[n], g)

\* if let Some(c) = config.max_clients / config.max_concurrent_streams
MaxValues(g, c) ==
  [g EXCEPT !.max_clients = IF is_some(c.max_clients) THEN unwrap(c.max_clients) ELSE @,
            !.max_concurrent_streams =
               IF is_some(c.max_concurrent_streams) THEN unwrap(c.max_concurrent_streams) ELSE @]

\* if let Some(h3option) = exp.h3 (feature "http3")
Http3(g, h3) ==
  [g EXCEPT !.http3 = TRUE,
            !.h3_alt_svc_max_age =
               IF is_some(h3.alt_svc_max_age) THEN unwrap(h3.alt_svc_max_age) ELSE @,
            !.h3_request_max_body_size =
               IF is_some(h3.request_max_body_size) THEN unwrap(h3.request_max_body_size) ELSE @,
            !.h3_max_concurrent_connections =
               IF is_some(h3.max_concurrent_connections)
                 THEN unwrap(h3.max_concurrent_connections) ELSE @,
            !.h3_max_concurrent_bidistream =
               IF is_some(h3.max_concurrent_bidistream)
                 THEN unwrap(h3.max_concurrent_bidistream) ELSE @,
            !.h3_max_concurrent_unistream =
               IF is_some(h3.max_concurrent_unistream)
                 THEN unwrap(h3.max_concurrent_unistream) ELSE @]

\* if let Some(exp) = config.experimental
Experimental(g, c) ==
  IF is_some(c.experimental)
    THEN LET exp == unwrap(c.experimental)
             g1 == IF is_some(exp.h3) THEN Http3(g, unwrap(exp.h3)) ELSE g
         IN  IF is_some(exp.ignore_sni_consistency)
               THEN [g1 EXCEPT !.sni_consistency = ~unwrap(exp.ignore_sni_consistency)]
               ELSE g1
    ELSE g

\* Mutant of Setup: the experimental options are applied before the checks.
Setup_ExperimentalFirst(g0, c) ==
  LET g1 == ListenPorts(Experimental(g0, c), c)
      addrs == listen_addresses(c)
      g2 == [g1 EXCEPT !.listen_sockets = ListenSockets(addrs, Len(addrs), g1)]
      g3 == MaxValues(g2, c)
  IN  IF ~PortSpecOk(g1) THEN [err |-> Some(ErrPort), g |-> g1]
      ELSE IF ~is_some(c.apps) THEN [err |-> Some(ErrMissingApps), g |-> g3]
      ELSE IF DOMAIN unwrap(c.apps) = {} THEN [err |-> Some(ErrWrongApps), g |-> g3]
      ELSE [err |-> None, g |-> g3]

\* parse_opts from the port assignment to the two checks of config.apps.
Setup(g0, c) ==
  LET g1 == ListenPorts(g0, c)
      addrs == listen_addresses(c)
      g2 == [g1 EXCEPT !.listen_sockets = ListenSockets(addrs, Len(addrs), g1)]
      g3 == MaxValues(g2, c)
  IN  IF ~PortSpecOk(g1) THEN [err |-> Some(ErrPort), g |-> g1]
      ELSE IF ~is_some(c.apps) THEN [err |-> Some(ErrMissingApps), g |-> g3]
      ELSE IF DOMAIN unwrap(c.apps) = {} THEN [err |-> Some(ErrWrongApps), g |-> g3]
      ELSE [err |-> None, g |-> g3]

\* PathBuf::from(&String)
PathBuf(s) == [path |-> s]

\* Option::as_ref().map(PathBuf::from)
MapPathBuf(o) == IF is_some(o) THEN Some(PathBuf(unwrap(o))) ELSE None

\* Mutant of TlsSettings: one of cert and key is enough (|| for &&).
TlsSettings_EitherPath(app, g) ==
  IF is_none(app.tls)
    THEN IF ~is_some(g.http_port)
           THEN [err |-> Some(ErrRequiredHttp), tls_cert_path |-> None,
                 tls_cert_key_path |-> None, https_redirection |-> None]
           ELSE [err |-> None, tls_cert_path |-> None,
                 tls_cert_key_path |-> None, https_redirection |-> None]
    ELSE LET tls == unwrap(app.tls)
         IN  IF ~(is_some(tls.tls_cert_key_path) \/ is_some(tls.tls_cert_path))
               THEN [err |-> Some(ErrTlsMaterial), tls_cert_path |-> None,
                     tls_cert_key_path |-> None, https_redirection |-> None]
             ELSE IF is_none(tls.https_redirection)
               THEN [err |-> None,
                     tls_cert_path |-> MapPathBuf(tls.tls_cert_path),
                     tls_cert_key_path |-> MapPathBuf(tls.tls_cert_key_path),
                     https_redirection |-> Some(TRUE)]
             ELSE IF ~is_some(g.https_port)
               THEN [err |-> Some(ErrRedirection), tls_cert_path |-> None,
                     tls_cert_key_path |-> None, https_redirection |-> None]
             ELSE [err |-> None,
                   tls_cert_path |-> MapPathBuf(tls.tls_cert_path),
                   tls_cert_key_path |-> MapPathBuf(tls.tls_cert_key_path),
                   https_redirection |-> tls.https_redirection]

\* Mutant of TlsSettings: an explicit https_redirection is accepted without TLS port.
TlsSettings_NoPortCheck(app, g) ==
  IF is_none(app.tls)
    THEN IF ~is_some(g.http_port)
           THEN [err |-> Some(ErrRequiredHttp), tls_cert_path |-> None,
                 tls_cert_key_path |-> None, https_redirection |-> None]
           ELSE [err |-> None, tls_cert_path |-> None,
                 tls_cert_key_path |-> None, https_redirection |-> None]
    ELSE LET tls == unwrap(app.tls)
         IN  IF ~(is_some(tls.tls_cert_key_path) /\ is_some(tls.tls_cert_path))
               THEN [err |-> Some(ErrTlsMaterial), tls_cert_path |-> None,
                     tls_cert_key_path |-> None, https_redirection |-> None]
             ELSE IF is_none(tls.https_redirection)
               THEN [err |-> None,
                     tls_cert_path |-> MapPathBuf(tls.tls_cert_path),
                     tls_cert_key_path |-> MapPathBuf(tls.tls_cert_key_path),
                     https_redirection |-> Some(TRUE)]
             ELSE [err |-> None,
                   tls_cert_path |-> MapPathBuf(tls.tls_cert_path),
                   tls_cert_key_path |-> MapPathBuf(tls.tls_cert_key_path),
                   https_redirection |-> tls.https_redirection]

\* The "TLS settings" block of the loop body.
TlsSettings(app, g) ==
  IF is_none(app.tls)
    THEN IF ~is_some(g.http_port)
           THEN [err |-> Some(ErrRequiredHttp), tls_cert_path |-> None,
                 tls_cert_key_path |-> None, https_redirection |-> None]
           ELSE [err |-> None, tls_cert_path |-> None,
                 tls_cert_key_path |-> None, https_redirection |-> None]
    ELSE LET tls == unwrap(app.tls)
         IN  IF ~(is_some(tls.tls_cert_key_path) /\ is_some(tls.tls_cert_path))
               THEN [err |-> Some(ErrTlsMaterial), tls_cert_path |-> None,
                     tls_cert_key_path |-> None, https_redirection |-> None]
             ELSE IF is_none(tls.https_redirection)
               THEN [err |-> None,
                     tls_cert_path |-> MapPathBuf(tls.tls_cert_path),
                     tls_cert_key_path |-> MapPathBuf(tls.tls_cert_key_path),
                     https_redirection |-> Some(TRUE)]
             ELSE IF ~is_some(g.https_port)
               THEN [err |-> Some(ErrRedirection), tls_cert_path |-> None,
                     tls_cert_key_path |-> None, https_redirection |-> None]
             ELSE [err |-> None,
                   tls_cert_path |-> MapPathBuf(tls.tls_cert_path),
                   tls_cert_key_path |-> MapPathBuf(tls.tls_cert_key_path),
                   https_redirection |-> tls.https_redirection]

\* The Backend registered for one tenant.
Backend(app_name, server_name, reverse_proxy, t) ==
  [app_name |-> app_name,
   server_name |-> server_name,
   reverse_proxy |-> reverse_proxy,
   tls_cert_path |-> t.tls_cert_path,
   tls_cert_key_path |-> t.tls_cert_key_path,
   https_redirection |-> t.https_redirection]

\* Mutant of RegisterApp: reverse_proxy is checked before the TLS settings.
RegisterApp_ReverseProxyFirst(app_name, app, g) ==
  IF ~is_some(app.server_name) THEN [err |-> Some(ErrServerName), g |-> g]
  ELSE
    LET server_name == to_ascii_lowercase(unwrap(app.server_name))
        t == TlsSettings(app, g)
    IN  IF ~is_some(app.reverse_proxy)
          THEN [err |-> Some(ErrReverseProxy), g |-> g]
        ELSE IF is_some(t.err) THEN [err |-> t.err, g |-> g]
        ELSE IF is_none(g.http_port) /\ ~is_some(app.tls)
          THEN [err |-> Some(ErrTlsRequired), g |-> g]
        ELSE
          LET rp == get_reverse_proxy(unwrap(app.reverse_proxy))
          IN  IF is_some(rp.err) THEN [err |-> rp.err, g |-> g]
              ELSE [err |-> None,
                    g |-> [g EXCEPT !.backends.apps =
                             Insert(@, server_name,
                                    Backend(app_name, server_name,
                                            [upstream |-> rp.upstream], t))]]

\* One iteration of "for (app_name, app) in apps.0.iter()".
RegisterApp(app_name, app, g) ==
  IF ~is_some(app.server_name) THEN [err |-> Some(ErrServerName), g |-> g]
  ELSE
    LET server_name == to_ascii_lowercase(unwrap(app.server_name))
        t == TlsSettings(app, g)
    IN  IF is_some(t.err) THEN [err |-> t.err, g |-> g]
        ELSE IF is_none(g.http_port) /\ ~is_some(app.tls)
          THEN [err |-> Some(ErrTlsRequired), g |-> g]
        ELSE IF ~is_some(app.reverse_proxy)
          THEN [err |-> Some(ErrReverseProxy), g |-> g]
        ELSE
          LET rp == get_reverse_proxy(unwrap(app.reverse_proxy))
          IN  IF is_some(rp.err) THEN [err |-> rp.err, g |-> g]
              ELSE [err |-> None,
                    g |-> [g EXCEPT !.backends.apps =
                             Insert(@, server_name,
                                    Backend(app_name, server_name,
                                            [upstream |-> rp.upstream], t))]]

\* The server names of the registered Backends whose app_name is d.
d_sn(g, d) ==
  {g.backends.apps[k].server_name :
     k \in {x \in DOMAIN g.backends.apps : g.backends.apps[x].app_name = d}}

\* Mutant of DefaultServerNames: the filter on app_name is missing.
DefaultServerNames_NoFilter(g, c) ==
  IF is_some(c.default_app) /\ DOMAIN g.backends.apps # {}
    THEN {Some(g.backends.apps[k].server_name) : k \in DOMAIN g.backends.apps}
    ELSE {g.backends.default_server_name}

\* The values default_server_name can take: d_sn[0] is the first match in the
\* registry's iteration order, any match in the model.
DefaultServerNames(g, c) ==
  IF is_some(c.default_app) /\ d_sn(g, unwrap(c.default_app)) # {}
    THEN {Some(s) : s \in d_sn(g, unwrap(c.default_app))}
    ELSE {g.backends.default_server_name}

\* ------------------------------------------------------------ configurations
\* listen_port / listen_port_tls: absent, or one of two port numbers.
OptPorts == {None, Some(80), Some(443)}

\* upstream entries of the configuration (UpstreamParams).
Upstreams ==
  {[location |-> "10.0.0.1:8080", tls |-> None],
   [location |-> "10.0.0.2:8443", tls |-> Some(TRUE)]}

\* A reverse_proxy entry without path, an entry with the explicit path "/",
\* and an entry with path "/A" and no upstream.
EntryDefault ==
  [path |-> None, upstream |-> <<[location |-> "10.0.0.1:8080", tls |-> None]>>,
   replace_path |-> None, upstream_options |-> None]

EntrySlash ==
  [path |-> Some(<<47>>), upstream |-> <<[location |-> "10.0.0.2:8443", tls |-> Some(TRUE)]>>,
   replace_path |-> Some(<<47, 88>>), upstream_options |-> Some(<<"foo", "override_host">>)]

EntryNoUpstream ==
  [path |-> Some(<<47, 65>>), upstream |-> <<>>,
   replace_path |-> None, upstream_options |-> None]

\* reverse_proxy of a tenant: absent, or up to MaxEntries of the entries above.
ReverseProxies ==
  {None} \cup {Some(s) : s \in SeqsUpTo({EntryDefault, EntrySlash, EntryNoUpstream}, MaxEntries)}

\* tls of a tenant: absent, or a block with each field present or not.
TlsBlocks ==
  {None} \cup
  {Some([tls_cert_path |-> c, tls_cert_key_path |-> k, https_redirection |-> r]) :
     c \in {None, Some("server.crt")}, k \in {None, Some("server.key")},
     r \in {None, Some(TRUE), Some(FALSE)}}

\* A single tenant: every combination of server name, tls block and reverse_proxy.
SingleApps ==
  [server_name : {None, Some(<<65>>)}, tls : TlsBlocks, reverse_proxy : ReverseProxies]

\* Tenants of a multi-tenant configuration: server names "A", "a", "b" (the
\* first two equal once lowercased) or none; no tls block or a complete one,
\* with or without reverse_proxy; or a tls block without key together with
\* two path-less reverse_proxy entries.
TlsComplete ==
  Some([tls_cert_path |-> Some("server.crt"), tls_cert_key_path |-> Some("server.key"),
        https_redirection |-> None])

TlsNoKey ==
  Some([tls_cert_path |-> Some("server.crt"), tls_cert_key_path |-> None,
        https_redirection |-> Some(TRUE)])

MultiApps ==
  [server_name : {None, Some(<<65>>), Some(<<97>>), Some(<<98>>)},
   tls : {None, TlsComplete},
   reverse_proxy : {None, Some(<<EntryDefault>>)}]
  \cup
  [server_name : {None, Some(<<65>>), Some(<<97>>), Some(<<98>>)},
   tls : {TlsNoKey},
   reverse_proxy : {Some(<<EntryDefault, EntryDefault>>)}]

AppNameList == <<"app1", "app2", "app3", "app4">>

AppNames == {AppNameList[i] : i \in 1..MaxApps}

\* listen_ipv6, the limits and the experimental block.
H3All ==
  [alt_svc_max_age |-> Some(7200), request_max_body_size |-> Some(1024),
   max_concurrent_connections |-> Some(50), max_concurrent_bidistream |-> Some(10),
   max_concurrent_unistream |-> Some(20)]

H3Some ==
  [alt_svc_max_age |-> None, request_max_body_size |-> Some(1024),
   max_concurrent_connections |-> None, max_concurrent_bidistream |-> None,
   max_concurrent_unistream |-> Some(20)]

TuningNone ==
  [listen_ipv6 |-> None, max_clients |-> None, max_concurrent_streams |-> None,
   experimental |-> None]

TuningAll ==
  [listen_ipv6 |-> Some(TRUE), max_clients |-> Some(100), max_concurrent_streams |-> Some(32),
   experimental |-> Some([h3 |-> Some(H3All), ignore_sni_consistency |-> Some(TRUE)])]

TuningV4 ==
  [listen_ipv6 |-> Some(FALSE), max_clients |-> None, max_concurrent_streams |-> Some(32),
   experimental |-> Some([h3 |-> None, ignore_sni_consistency |-> Some(FALSE)])]

TuningH3 ==
  [listen_ipv6 |-> Some(TRUE), max_clients |-> Some(100), max_concurrent_streams |-> None,
   experimental |-> Some([h3 |-> Some(H3Some), ignore_sni_consistency |-> None])]

Tunings == {TuningNone, TuningAll, TuningV4, TuningH3}

DefaultApps == {None, Some("app1"), Some("nonexistent")}

ConfigToml(lp, lpt, t, d, apps) ==
  [listen_port |-> lp, listen_port_tls |-> lpt, listen_ipv6 |-> t.listen_ipv6,
   max_clients |-> t.max_clients, max_concurrent_streams |-> t.max_concurrent_streams,
   default_app |-> d, apps |-> apps, experimental |-> t.experimental]

\* No apps table, an empty one, or one tenant "app1".
SingleConfigs ==
  {ConfigToml(lp, lpt, t, d, apps) :
     lp \in OptPorts, lpt \in OptPorts, t \in Tunings, d \in DefaultApps,
     apps \in {None, Some(<<>>)} \cup {Some([n \in {"app1"} |-> a]) : a \in SingleApps}}

\* Two to MaxApps tenants.
MultiConfigs ==
  {ConfigToml(lp, lpt, t, d, Some(apps)) :
     lp \in OptPorts, lpt \in OptPorts,
     t \in {TuningAll},
     d \in DefaultApps,
     apps \in UNION {[N -> MultiApps] : N \in {S \in SUBSET AppNames : Cardinality(S) >= 2}}}

Configs == SingleConfigs \cup MultiConfigs

\* ------------------------------------------------------------ the run of parse_opts
\* The tenants of the configuration not yet visited by the loop.
Remaining ==
  IF is_some(config.apps) THEN (DOMAIN unwrap(config.apps)) \ Range(visited) ELSE {}

Init ==
  /\ config \in Configs
  /\ globals = InitGlobals
  /\ pc = "start"
  /\ visited = <<>>
  /\ result = "pending"
  /\ rp_settings = <<>>
  /\ rp_result = None

\* Ports, sockets, limits and the checks of config.apps.
ParseSetup ==
  /\ pc = "start"
  /\ LET r == Setup(globals, config)
     IN  /\ globals' = r.g
         /\ pc' = IF is_some(r.err) THEN "err" ELSE "apps"
         /\ result' = IF is_some(r.err) THEN unwrap(r.err) ELSE result
  /\ UNCHANGED <<config, visited, rp_settings, rp_result>>

\* One iteration of the loop over apps, in the HashMap's order.
ParseApp ==
  /\ pc = "apps"
  /\ \E app_name \in Remaining :
       LET r == RegisterApp(app_name, unwrap(config.apps)[app_name], globals)
       IN  /\ globals' = r.g
           /\ visited' = Append(visited, app_name)
           /\ pc' = IF is_some(r.err) THEN "err" ELSE "apps"
           /\ result' = IF is_some(r.err) THEN unwrap(r.err) ELSE result
  /\ UNCHANGED <<config, rp_settings, rp_result>>

\* After the loop: the default backend, the experimental options, Ok(()).
ParseFinish ==
  /\ pc = "apps"
  /\ Remaining = {}
  /\ \E d \in DefaultServerNames(globals, config) :
       globals' = Experimental([globals EXCEPT !.backends.default_server_name = d], config)
  /\ pc' = "done"
  /\ result' = "Ok"
  /\ UNCHANGED <<config, visited, rp_settings, rp_result>>

Next == ParseSetup \/ ParseApp \/ ParseFinish

Spec == Init /\ [][Next]_vars

\* ------------------------------------------------------------ get_reverse_proxy alone
\* Entries drawn from every combination of path, upstream list, replace_path
\* and upstream_options.
Entries ==
  [path : {None, Some(<<47>>), Some(<<47, 65>>), Some(<<47, 97>>)},
   upstream : SeqsUpTo(Upstreams, MaxUpstreams),
   replace_path : {None, Some(<<47, 88>>)},
   upstream_options : {None, Some(<<"foo", "override_host">>)}]

InitRP ==
  /\ rp_settings \in SeqsUpTo(Entries, MaxEntries)
  /\ rp_result = None
  /\ pc = "rp"
  /\ config = None
  /\ globals = InitGlobals
  /\ visited = <<>>
  /\ result = "pending"

CallGetReverseProxy ==
  /\ pc = "rp"
  /\ rp_result' = Some(get_reverse_proxy(rp_settings))
  /\ pc' = "rp_done"
  /\ UNCHANGED <<config, globals, visited, result, rp_settings>>

NextRP == CallGetReverseProxy

SpecRP == InitRP /\ [][NextRP]_vars

\* ------------------------------------------------------------ properties
\* The tenants of the configuration and the registry built so far.
Apps == IF is_some(config.apps) THEN unwrap(config.apps) ELSE <<>>

Registry == globals.backends.apps

KeyOf(app) == to_ascii_lowercase(unwrap(app.server_name))

PortsRejected ==
  \/ is_none(config.listen_port) /\ is_none(config.listen_port_tls)
  \/ /\ is_some(config.listen_port)
     /\ is_some(config.listen_port_tls)
     /\ unwrap(config.listen_port) = unwrap(config.listen_port_tls)

TlsErrors == {ErrRequiredHttp, ErrTlsMaterial, ErrRedirection, ErrTlsRequired}

\* What is wrong with one tenant, stated on the configuration.
NoServerName(a) == is_none(a.server_name)

NoReverseProxy(a) == is_none(a.reverse_proxy)

TlsViolation(a) ==
  IF is_none(a.tls)
    THEN is_none(config.listen_port)
    ELSE \/ is_none(unwrap(a.tls).tls_cert_path)
         \/ is_none(unwrap(a.tls).tls_cert_key_path)
         \/ is_some(unwrap(a.tls).https_redirection) /\ is_none(config.listen_port_tls)

MultiDefault(a) ==
  /\ is_some(a.reverse_proxy)
  /\ \E i, j \in 1..Len(unwrap(a.reverse_proxy)) :
       /\ i # j
       /\ is_none(unwrap(a.reverse_proxy)[i].path)
       /\ is_none(unwrap(a.reverse_proxy)[j].path)

Violates(a) == NoServerName(a) \/ NoReverseProxy(a) \/ TlsViolation(a) \/ MultiDefault(a)

\* C1: parse_opts fails with the port error exactly when both ports are absent
\* or both are present and equal; every other port combination passes the check.
C1_PortCheck == pc # "start" => ((result = ErrPort) <=> PortsRejected)

C1_Witness ==
  /\ pc = "err"
  /\ result = ErrPort
  /\ is_some(config.listen_port)
  /\ config.listen_port = config.listen_port_tls

\* C2: every registered Backend has both cert and key paths or neither, and one
\* with neither exists only if the plaintext port is enabled; with only the TLS
\* port enabled a tenant without tls block fails validation, and a tenant with
\* cert and key passes the TLS checks.
C2_TlsCoherence ==
  /\ \A k \in DOMAIN Registry :
       /\ is_some(Registry[k].tls_cert_path) <=> is_some(Registry[k].tls_cert_key_path)
       /\ is_none(Registry[k].tls_cert_path) => is_some(globals.http_port)
  /\ (pc = "done" /\ is_none(config.listen_port)) => \A n \in DOMAIN Apps : is_some(Apps[n].tls)
  /\ (/\ pc = "err"
      /\ Len(visited) > 0
      /\ is_none(config.listen_port)
      /\ is_some(Apps[visited[Len(visited)]].tls)
      /\ is_some(unwrap(Apps[visited[Len(visited)]].tls).tls_cert_path)
      /\ is_some(unwrap(Apps[visited[Len(visited)]].tls).tls_cert_key_path))
     => result \notin TlsErrors

C2_Witness ==
  /\ pc = "done"
  /\ is_none(globals.http_port)
  /\ \E k \in DOMAIN Registry :
       is_some(Registry[k].tls_cert_path) /\ is_some(Registry[k].tls_cert_key_path)

\* C3: get_reverse_proxy fails with the duplicate-default error when two or more
\* entries lack path; with exactly one such entry it succeeds and the group
\* stored under "/" is that entry, whatever the other entries and their order.
C3_DefaultPath ==
  pc = "rp_done" =>
    /\ DefaultCount(rp_settings) >= 2 => unwrap(rp_result).err = Some(ErrMultipleDefault)
    /\ DefaultCount(rp_settings) = 1 =>
         /\ unwrap(rp_result).err = None
         /\ <<47>> \in DOMAIN unwrap(rp_result).upstream
         /\ \A i \in 1..Len(rp_settings) :
              is_none(rp_settings[i].path) =>
                unwrap(rp_result).upstream[<<47>>] = UpstreamGroup(rp_settings[i])

\* C4: after a successful parse_opts every registered Backend has at least one
\* Upstream Group and every group at least one upstream.
C4_NonEmpty ==
  pc = "done" =>
    \A k \in DOMAIN Registry :
      /\ DOMAIN Registry[k].reverse_proxy.upstream # {}
      /\ \A p \in DOMAIN Registry[k].reverse_proxy.upstream :
           Len(Registry[k].reverse_proxy.upstream[p].upstream) >= 1

\* C5: after a successful parse_opts default_server_name is set exactly when
\* default_app is the app_name of a registered Backend, and is then the server
\* name of such a Backend and a key of the registry; a default_app matching no
\* Backend leaves it unset and does not stop parse_opts from succeeding.
C5_DefaultApp ==
  /\ pc = "done" =>
       LET dsn == globals.backends.default_server_name
       IN  /\ is_some(dsn) <=>
                /\ is_some(config.default_app)
                /\ \E k \in DOMAIN Registry : Registry[k].app_name = unwrap(config.default_app)
           /\ is_some(dsn) =>
                /\ unwrap(dsn) \in DOMAIN Registry
                /\ Registry[unwrap(dsn)].server_name = unwrap(dsn)
                /\ Registry[unwrap(dsn)].app_name = unwrap(config.default_app)
  /\ (pc = "apps" /\ Remaining = {}) => ENABLED ParseFinish

C5_Witness ==
  /\ pc = "done"
  /\ is_some(globals.backends.default_server_name)
  /\ Cardinality(DOMAIN Registry) >= 2

\* C6: the Backend of a tenant with a tls block has https_redirection Some(true)
\* when the option is omitted and the given value when it is given, which needs
\* the TLS port (validation fails otherwise); a tenant without tls block has
\* https_redirection unset.
C6_Redirection ==
  pc = "done" =>
    /\ \A k \in DOMAIN Registry :
         LET app == Apps[Registry[k].app_name]
         IN  IF is_none(app.tls) THEN Registry[k].https_redirection = None
             ELSE IF is_none(unwrap(app.tls).https_redirection)
               THEN Registry[k].https_redirection = Some(TRUE)
             ELSE Registry[k].https_redirection = unwrap(app.tls).https_redirection
    /\ \A n \in DOMAIN Apps :
         (is_some(Apps[n].tls) /\ is_some(unwrap(Apps[n].tls).https_redirection))
           => is_some(globals.https_port)

C6_Witness ==
  /\ pc = "done"
  /\ \E k \in DOMAIN Registry : Registry[k].https_redirection = Some(FALSE)

\* C7 (as claimed): whenever parse_opts returns an error the Globals are the
\* same as before the call.
C7_Pure == pc = "err" => globals = InitGlobals

\* C7 (amended): on an error only default_server_name, sni_consistency and the
\* HTTP/3 settings are untouched; the ports have been overwritten from the
\* configuration, after the port check so have the sockets and the limits, and
\* the Backends of the tenants visited before the failing one stay registered.
C7_PartialMutation ==
  pc = "err" =>
    /\ globals.backends.default_server_name = InitGlobals.backends.default_server_name
    /\ globals.sni_consistency = InitGlobals.sni_consistency
    /\ globals.http3 = InitGlobals.http3
    /\ globals.h3_alt_svc_max_age = InitGlobals.h3_alt_svc_max_age
    /\ globals.h3_request_max_body_size = InitGlobals.h3_request_max_body_size
    /\ globals.h3_max_concurrent_connections = InitGlobals.h3_max_concurrent_connections
    /\ globals.h3_max_concurrent_bidistream = InitGlobals.h3_max_concurrent_bidistream
    /\ globals.h3_max_concurrent_unistream = InitGlobals.h3_max_concurrent_unistream
    /\ globals.http_port = config.listen_port
    /\ globals.https_port = config.listen_port_tls
    /\ IF result = ErrPort
         THEN /\ globals.listen_sockets = InitGlobals.listen_sockets
              /\ globals.max_clients = InitGlobals.max_clients
              /\ globals.max_concurrent_streams = InitGlobals.max_concurrent_streams
         ELSE /\ Len(globals.listen_sockets) >= 1
              /\ is_some(config.max_clients) => globals.max_clients = unwrap(config.max_clients)
              /\ is_some(config.max_concurrent_streams) =>
                   globals.max_concurrent_streams = unwrap(config.max_concurrent_streams)
    /\ DOMAIN Registry = {KeyOf(Apps[visited[i]]) : i \in 1..(Len(visited) - 1)}

C7_Witness ==
  /\ pc = "err"
  /\ Len(visited) >= 2
  /\ Registry # EmptyMap
  /\ globals.max_clients # InitGlobals.max_clients

\* C8 (as claimed): the checks run in the order ports, at least one tenant,
\* every tenant's server name, every tenant's reverse_proxy, the per-tenant TLS
\* checks, the per-tenant default-path check, and the error is that of the
\* earliest violated check in this order.
C8_ClaimedOrder ==
  pc = "err" =>
    result \in
      IF PortsRejected THEN {ErrPort}
      ELSE IF DOMAIN Apps = {} THEN {ErrMissingApps, ErrWrongApps}
      ELSE IF \E n \in DOMAIN Apps : NoServerName(Apps[n]) THEN {ErrServerName}
      ELSE IF \E n \in DOMAIN Apps : NoReverseProxy(Apps[n]) THEN {ErrReverseProxy}
      ELSE IF \E n \in DOMAIN Apps : TlsViolation(Apps[n]) THEN TlsErrors
      ELSE {ErrMultipleDefault}

\* C8 (amended): the checks run in the order ports, at least one tenant, and
\* then tenant by tenant in the iteration order of apps, for each tenant server
\* name, TLS checks, reverse_proxy, default-path uniqueness; the error is that
\* of the earliest violated check in this order, and parse_opts succeeds only
\* if no check is violated.
FirstErrors(a) ==
  IF NoServerName(a) THEN {ErrServerName}
  ELSE IF TlsViolation(a) THEN TlsErrors
  ELSE IF NoReverseProxy(a) THEN {ErrReverseProxy}
  ELSE IF MultiDefault(a) THEN {ErrMultipleDefault}
  ELSE {}

C8_CodeOrder ==
  /\ pc = "err" =>
       IF PortsRejected THEN result = ErrPort
       ELSE IF is_none(config.apps) THEN result = ErrMissingApps
       ELSE IF DOMAIN Apps = {} THEN result = ErrWrongApps
       ELSE /\ Len(visited) >= 1
            /\ \A i \in 1..(Len(visited) - 1) : ~Violates(Apps[visited[i]])
            /\ result \in FirstErrors(Apps[visited[Len(visited)]])
  /\ pc = "done" =>
       /\ ~PortsRejected
       /\ DOMAIN Apps # {}
       /\ \A n \in DOMAIN Apps : ~Violates(Apps[n])

C8_Witness ==
  /\ pc = "err"
  /\ Len(visited) >= 1
  /\ result \in TlsErrors
  /\ NoReverseProxy(Apps[visited[Len(visited)]])
  /\ \E n \in DOMAIN Apps : NoServerName(Apps[n])

\* C9: two entries of one tenant whose paths are equal after ASCII-lowercasing
\* (an absent path counting as "/") make get_reverse_proxy fail, so that on
\* success there are as many groups as entries and every entry is stored under
\* its own key.
C9_NoDuplicateKeys ==
  pc = "rp_done" =>
    /\ (\E i, j \in 1..Len(rp_settings) :
          i # j /\ PathOf(rp_settings[i]) = PathOf(rp_settings[j]))
         => is_some(unwrap(rp_result).err)
    /\ is_none(unwrap(rp_result).err) =>
         /\ Cardinality(DOMAIN unwrap(rp_result).upstream) = Len(rp_settings)
         /\ \A i \in 1..Len(rp_settings) :
              unwrap(rp_result).upstream[PathOf(rp_settings[i])] = UpstreamGroup(rp_settings[i])

\* C10: after a successful parse_opts every configured app has a Backend under
\* the key of its lowercased server_name carrying its app_name, so there are as
\* many Backends as configured apps.
C10_NoTenantLost ==
  pc = "done" =>
    /\ Cardinality(DOMAIN Registry) = Cardinality(DOMAIN Apps)
    /\ \A n \in DOMAIN Apps :
         /\ KeyOf(Apps[n]) \in DOMAIN Registry
         /\ Registry[KeyOf(Apps[n])].app_name = n

====
